---- MODULE Spec2Model ----
(***************************************************************************)
(* Path enumeration (preprocess/search_path.py: generate_paths, main) and  *)
(* the memoised relation scorer (scorer/scorer.py: Scorer.score).          *)
(*                                                                         *)
(* Spec      : generate_paths called directly with any max_path, and       *)
(*             main's batch loop calling it with the default max_path.     *)
(* SpecScore : a sequence of score calls on one Scorer instance.           *)
(***************************************************************************)
EXTENDS Integers, Sequences, FiniteSets, TLC

VARIABLES
    \* ---- generate_paths (one activation) ----
    src_entities,   \* argument src_entities
    dst_entities,   \* argument dst_entities
    max_path,       \* argument max_path
    kg,             \* the knowledge-graph backend: what each (src, dst) holds
    paths,          \* local list paths
    i,              \* position of the outer loop in src_entities
    j,              \* position of the inner loop in dst_entities
    pc,             \* control point of generate_paths
    result,         \* the returned list (meaningful when pc = "returned")
    queries,        \* the backend calls this activation has issued, in order
    \* ---- main ----
    samples,        \* the records read from ground_path
    idx,            \* number of samples the for loop has consumed
    processed,      \* processed_samples
    skipped,        \* skipped
    raisedAt,       \* ids of the samples whose exception was printed
    mpc,            \* control point of main
    output,         \* the records written to output_path
    \* ---- Scorer.score under functools.lru_cache ----
    cache,          \* cached entries, least recently used first
    calls,          \* per key scored, how many times the encoder forward pass ran
    fresh,          \* number of filler keys scored so far
    lastKey,        \* key of the latest score call
    lastHit,        \* whether the latest call was served from the cache
    lastValue       \* what the latest call returned

genVars   == <<src_entities, dst_entities, max_path, kg, paths, i, j, pc, result, queries>>
mainVars  == <<samples, idx, processed, skipped, raisedAt, mpc, output>>
scoreVars == <<cache, calls, fresh, lastKey, lastHit, lastValue>>
vars      == <<genVars, mainVars, scoreVars>>

(***************************************************************************)
(* Bounds of the model and constants of the program                        *)
(***************************************************************************)
MaxLen == 2            \* longest entity list of a direct call
MaxPathArg == 2        \* direct calls take max_path in 0..MaxPathArg or the default
MaxSamples == 2        \* longest batch
ManyOne == 60          \* one-hop paths of a densely connected pair
ManyTwo == 45          \* two-hop paths of a densely connected pair
MaxFresh == 129        \* filler keys a run of score calls may introduce
DefaultMaxPath == 100  \* generate_paths(..., max_path=100)
LruMaxSize == 128      \* functools.lru_cache default maxsize of @lru_cache

Entities == {"Q1", "Q2"}
Mid == "Q5"            \* the intermediate entity of two-hop paths

Min(a, b) == IF a <= b THEN a ELSE b

(***************************************************************************)
(* The backend.  A backend holds, for every ordered pair of entities, a    *)
(* number of one-hop and of two-hop paths; a query answers them in a fixed *)
(* order, or raises (timeout, malformed response).                         *)
(***************************************************************************)
Kinds == { [one |-> 0, two |-> 0],
           [one |-> 1, two |-> 1],
           [one |-> ManyOne, two |-> ManyTwo] }

Backends == [Entities \X Entities -> Kinds]

\* kg.search_one_hop_relation(src, dst): single-triplet paths src --r--> dst
search_one_hop_relation(b, s, d) ==
    [r \in 1..b[<<s, d>>].one |-> << <<s, r, d>> >>]

\* kg.search_two_hop_relation(src, dst): src --r--> Mid --r--> dst
search_two_hop_relation(b, s, d) ==
    [r \in 1..b[<<s, d>>].two |-> << <<s, r, Mid>>, <<Mid, r, d>> >>]

(***************************************************************************)
(* generate_paths                                                          *)
(***************************************************************************)
\* faulty variant: the backend is asked for (dst, src)
PairSwapped == <<dst_entities[j], src_entities[i]>>
\* the pair the loops are at: src of the outer loop, dst of the inner loop
CurrentPair == <<src_entities[i], dst_entities[j]>>

\* faulty variant: the loop never tests the cap
CapNeverReached == FALSE
\* if len(paths) >= max_path
CapReached == Len(paths) >= max_path

\* faulty variants: return paths, and return the last max_path elements
TruncateNone(ps, n) == ps
TruncateTail(ps, n) == SubSeq(ps, Len(ps) - Min(n, Len(ps)) + 1, Len(ps))
\* paths[:max_path], max_path >= 0
Truncate(ps, n) == SubSeq(ps, 1, Min(n, Len(ps)))

Query(op, p, outcome) == [op |-> op, src |-> p[1], dst |-> p[2], outcome |-> outcome]

\* for src in src_entities: (next element)
NextSrc ==
    /\ pc = "outer"
    /\ i < Len(src_entities)
    /\ i' = i + 1
    /\ j' = 0
    /\ pc' = "inner"
    /\ UNCHANGED <<src_entities, dst_entities, max_path, kg, paths, result, queries>>
    /\ UNCHANGED <<mainVars, scoreVars>>

\* for dst in dst_entities: (next element), cap not reached
NextDst ==
    /\ pc = "inner"
    /\ j < Len(dst_entities)
    /\ ~CapReached
    /\ j' = j + 1
    /\ pc' = "one_hop"
    /\ UNCHANGED <<src_entities, dst_entities, max_path, kg, paths, i, result, queries>>
    /\ UNCHANGED <<mainVars, scoreVars>>

\* if len(paths) >= max_path: break   (leaves the inner loop only)
Break ==
    /\ pc = "inner"
    /\ j < Len(dst_entities)
    /\ CapReached
    /\ pc' = "outer"
    /\ UNCHANGED <<src_entities, dst_entities, max_path, kg, paths, i, j, result, queries>>
    /\ UNCHANGED <<mainVars, scoreVars>>

\* the inner loop is exhausted
InnerDone ==
    /\ pc = "inner"
    /\ j = Len(dst_entities)
    /\ pc' = "outer"
    /\ UNCHANGED <<src_entities, dst_entities, max_path, kg, paths, i, j, result, queries>>
    /\ UNCHANGED <<mainVars, scoreVars>>

\* paths.extend(kg.search_one_hop_relation(src, dst))
OneHop ==
    /\ pc = "one_hop"
    /\ paths' = paths \o search_one_hop_relation(kg, CurrentPair[1], CurrentPair[2])
    /\ queries' = Append(queries, Query("one_hop", CurrentPair, "ok"))
    /\ pc' = "two_hop"
    /\ UNCHANGED <<src_entities, dst_entities, max_path, kg, i, j, result>>
    /\ UNCHANGED <<mainVars, scoreVars>>

\* faulty variant: the failure is swallowed and the pair dropped
OneHopRaisesSwallowed ==
    /\ pc = "one_hop"
    /\ queries' = Append(queries, Query("one_hop", CurrentPair, "raised"))
    /\ pc' = "inner"
    /\ UNCHANGED <<src_entities, dst_entities, max_path, kg, paths, i, j, result>>
    /\ UNCHANGED <<mainVars, scoreVars>>
\* kg.search_one_hop_relation raises: nothing in generate_paths catches it
OneHopRaises ==
    /\ pc = "one_hop"
    /\ queries' = Append(queries, Query("one_hop", CurrentPair, "raised"))
    /\ pc' = "raised"
    /\ UNCHANGED <<src_entities, dst_entities, max_path, kg, paths, i, j, result>>
    /\ UNCHANGED <<mainVars, scoreVars>>

\* paths.extend(kg.search_two_hop_relation(src, dst))
TwoHop ==
    /\ pc = "two_hop"
    /\ paths' = paths \o search_two_hop_relation(kg, CurrentPair[1], CurrentPair[2])
    /\ queries' = Append(queries, Query("two_hop", CurrentPair, "ok"))
    /\ pc' = "inner"
    /\ UNCHANGED <<src_entities, dst_entities, max_path, kg, i, j, result>>
    /\ UNCHANGED <<mainVars, scoreVars>>

\* kg.search_two_hop_relation raises: nothing in generate_paths catches it
TwoHopRaises ==
    /\ pc = "two_hop"
    /\ queries' = Append(queries, Query("two_hop", CurrentPair, "raised"))
    /\ pc' = "raised"
    /\ UNCHANGED <<src_entities, dst_entities, max_path, kg, paths, i, j, result>>
    /\ UNCHANGED <<mainVars, scoreVars>>

\* return paths[:max_path]
Return ==
    /\ pc = "outer"
    /\ i = Len(src_entities)
    /\ result' = Truncate(paths, max_path)
    /\ pc' = "returned"
    /\ UNCHANGED <<src_entities, dst_entities, max_path, kg, paths, i, j, queries>>
    /\ UNCHANGED <<mainVars, scoreVars>>


(***************************************************************************)
(* main                                                                    *)
(***************************************************************************)
\* A ground sample is a record; fields beyond the four named ones pass through.
StalePaths == << << <<"Q1", 0, "Q1">> >> >>

Shape(name, k) ==
    CASE name = "one_pair"  -> [id |-> k, question |-> "q",
                                question_entities |-> <<"Q1">>,
                                answer_entities |-> <<"Q2">>]
      [] name = "two_pairs" -> [id |-> k, question |-> "q", split |-> "train",
                                question_entities |-> <<"Q1", "Q2">>,
                                answer_entities |-> <<"Q2">>]
      [] name = "no_question_entities" ->
                               [id |-> k, question |-> "q",
                                answer_entities |-> <<"Q2">>]
      [] name = "no_answer_entities" ->
                               [id |-> k, question |-> "q",
                                question_entities |-> <<"Q1">>]
      [] name = "has_paths" -> [id |-> k, question |-> "q",
                                question_entities |-> <<"Q1">>,
                                answer_entities |-> <<"Q2">>,
                                paths |-> StalePaths]

ShapeNames == {"one_pair", "two_pairs", "no_question_entities",
               "no_answer_entities", "has_paths"}

\* the batches read from ground_path: sample k carries id k
Batches ==
    UNION { { [k \in 1..n |-> Shape(f[k], k)] : f \in [1..n -> ShapeNames] }
            : n \in 0..MaxSamples }

\* the pairs the samples above can query; a batch run varies the backend on these
MainPairs == {<<"Q1", "Q2">>, <<"Q2", "Q2">>}
MainBackends ==
    {b \in Backends : \A p \in (Entities \X Entities) \ MainPairs : b[p].one = 0 /\ b[p].two = 0}

\* sample['question_entities'], sample['answer_entities'] both exist
HasEntityFields(s) ==
    "question_entities" \in DOMAIN s /\ "answer_entities" \in DOMAIN s

\* faulty variant: a paths field of the input is kept
SetPathsKeepOld(s, ps) == IF "paths" \in DOMAIN s THEN s ELSE s @@ [paths |-> ps]
\* sample['paths'] = paths
SetPaths(s, ps) ==
    [f \in DOMAIN s \cup {"paths"} |-> IF f = "paths" THEN ps ELSE s[f]]

\* for sample in ground_samples: read the two fields, call generate_paths(.., kg)
MainFetch ==
    /\ mpc = "fetch"
    /\ idx < Len(samples)
    /\ HasEntityFields(samples[idx + 1])
    /\ idx' = idx + 1
    /\ src_entities' = samples[idx + 1]["question_entities"]
    /\ dst_entities' = samples[idx + 1]["answer_entities"]
    /\ max_path' = DefaultMaxPath
    /\ paths' = <<>>
    /\ i' = 0
    /\ j' = 0
    /\ result' = <<>>
    /\ queries' = <<>>
    /\ pc' = "outer"
    /\ mpc' = "enumerating"
    /\ UNCHANGED <<kg, samples, processed, skipped, raisedAt, output>>
    /\ UNCHANGED scoreVars

\* sample['question_entities'] or sample['answer_entities'] raises KeyError
\* outside the try block: the exception leaves main
MainKeyError ==
    /\ mpc = "fetch"
    /\ idx < Len(samples)
    /\ ~HasEntityFields(samples[idx + 1])
    /\ idx' = idx + 1
    /\ mpc' = "aborted"
    /\ UNCHANGED <<genVars, samples, processed, skipped, raisedAt, output>>
    /\ UNCHANGED scoreVars

\* sample['paths'] = paths; processed_samples.append(sample)
MainAppend ==
    /\ mpc = "enumerating"
    /\ pc = "returned"
    /\ processed' = Append(processed, SetPaths(samples[idx], result))
    /\ pc' = "idle"
    /\ mpc' = "fetch"
    /\ UNCHANGED <<src_entities, dst_entities, max_path, kg, paths, i, j, result, queries>>
    /\ UNCHANGED <<samples, idx, skipped, raisedAt, output>>
    /\ UNCHANGED scoreVars

\* faulty variant: no handler around generate_paths, the exception leaves main
MainSkipAborts ==
    /\ mpc = "enumerating"
    /\ pc = "raised"
    /\ pc' = "idle"
    /\ mpc' = "aborted"
    /\ UNCHANGED <<src_entities, dst_entities, max_path, kg, paths, i, j, result, queries>>
    /\ UNCHANGED <<samples, idx, processed, skipped, raisedAt, output>>
    /\ UNCHANGED scoreVars

\* except Exception as e: skipped += 1; print(e); continue
MainSkip ==
    /\ mpc = "enumerating"
    /\ pc = "raised"
    /\ skipped' = skipped + 1
    /\ raisedAt' = raisedAt \cup {samples[idx]["id"]}
    /\ pc' = "idle"
    /\ mpc' = "fetch"
    /\ UNCHANGED <<src_entities, dst_entities, max_path, kg, paths, i, j, result, queries>>
    /\ UNCHANGED <<samples, idx, processed, output>>
    /\ UNCHANGED scoreVars

\* the loop is exhausted: srsly.write_jsonl(args.output_path, processed_samples)
MainWrite ==
    /\ mpc = "fetch"
    /\ idx = Len(samples)
    /\ output' = processed
    /\ mpc' = "done"
    /\ UNCHANGED <<genVars, samples, idx, processed, skipped, raisedAt>>
    /\ UNCHANGED scoreVars

(***************************************************************************)
(* Scorer.score, memoised by @lru_cache                                    *)
(***************************************************************************)
\* a key is (question, prev_relations, next_relation); relation labels are numbered
ProbeKey == <<"q", <<1, 2>>, 0>>
FillerKey(n) == <<"q", <<>>, n>>
Keys == {ProbeKey} \cup {FillerKey(n) : n \in 1..MaxFresh}

RECURSIVE Join(_)
\* ' # '.join(prev_relations)
Join(rels) ==
    IF Len(rels) = 0 THEN <<>>
    ELSE IF Len(rels) = 1 THEN <<rels[1]>>
    ELSE <<rels[1], " # ">> \o Join(Tail(rels))

\* text_pair = [f"query: {question} [SEP] {join}", 'relation: ' + next_relation]
TextPair(key) ==
    << <<"query: ", key[1], " [SEP] ">> \o Join(key[2]), <<"relation: ", key[3]>> >>

\* the forward pass, pooling and cosine similarity: a function of the text pair
Forward(key) == [cosine_of |-> TextPair(key)]

\* position of key in the cache, 0 when absent
CachePos(c, key) ==
    IF \E n \in 1..Len(c) : c[n].key = key
    THEN CHOOSE n \in 1..Len(c) : c[n].key = key
    ELSE 0

\* faulty variant: the cache is never consulted
CacheHitNever(c, key) == FALSE
\* the key is in the cache
CacheHit(c, key) == CachePos(c, key) # 0

Without(c, n) == SubSeq(c, 1, n - 1) \o SubSeq(c, n + 1, Len(c))

\* a miss stores the result, evicting the least recently used entry of a full cache
Store(c, key, value) ==
    Append(IF Len(c) >= LruMaxSize THEN Tail(c) ELSE c, [key |-> key, value |-> value])

\* how many times the forward pass ran for key
CallsOf(key) == IF key \in DOMAIN calls THEN calls[key] ELSE 0

\* scorer.score(question, prev_relations, next_relation)
Score(key) ==
    /\ lastKey' = key
    /\ IF CacheHit(cache, key)
       THEN LET n == CachePos(cache, key) IN
            /\ lastValue' = cache[n].value
            /\ lastHit' = TRUE
            /\ cache' = Append(Without(cache, n), cache[n])
            /\ calls' = calls
       ELSE /\ lastValue' = Forward(key)
            /\ lastHit' = FALSE
            /\ calls' = (key :> CallsOf(key) + 1) @@ calls
            /\ cache' = Store(cache, key, Forward(key))

\* a call with a key scored before (or the first call with it)
ScoreProbe ==
    /\ Score(ProbeKey)
    /\ UNCHANGED fresh
    /\ UNCHANGED <<genVars, mainVars>>

\* a call with a key never scored before
ScoreFresh ==
    /\ fresh < MaxFresh
    /\ fresh' = fresh + 1
    /\ Score(FillerKey(fresh + 1))
    /\ UNCHANGED <<genVars, mainVars>>

(***************************************************************************)
(* Specifications                                                          *)
(***************************************************************************)
EntityLists == UNION { [1..n -> Entities] : n \in 0..MaxLen }

ScorerFresh ==
    /\ cache = <<>>
    /\ calls = <<>>
    /\ fresh = 0
    /\ lastKey = <<>>
    /\ lastHit = FALSE
    /\ lastValue = <<>>

GenIdle ==
    /\ src_entities = <<>>
    /\ dst_entities = <<>>
    /\ max_path = DefaultMaxPath
    /\ paths = <<>>
    /\ i = 0
    /\ j = 0
    /\ pc = "idle"
    /\ result = <<>>
    /\ queries = <<>>

MainFresh(m) ==
    /\ idx = 0
    /\ processed = <<>>
    /\ skipped = 0
    /\ raisedAt = {}
    /\ mpc = m
    /\ output = <<>>

\* generate_paths(src_entities, dst_entities, kg, max_path) called directly
InitDirect ==
    /\ src_entities \in EntityLists
    /\ dst_entities \in EntityLists
    /\ max_path \in (0..MaxPathArg) \cup {DefaultMaxPath}
    /\ kg \in Backends
    /\ paths = <<>>
    /\ i = 0
    /\ j = 0
    /\ pc = "outer"
    /\ result = <<>>
    /\ queries = <<>>
    /\ samples = <<>>
    /\ MainFresh("direct")
    /\ ScorerFresh

\* main(args) after kg = Wikidata(...), processed_samples = [], skipped = 0
InitMain ==
    /\ samples \in Batches
    /\ kg \in MainBackends
    /\ GenIdle
    /\ MainFresh("fetch")
    /\ ScorerFresh

Init == InitDirect \/ InitMain

Next ==
    \/ NextSrc
    \/ NextDst
    \/ Break
    \/ InnerDone
    \/ OneHop
    \/ OneHopRaises
    \/ TwoHop
    \/ TwoHopRaises
    \/ Return
    \/ MainFetch
    \/ MainKeyError
    \/ MainAppend
    \/ MainSkip
    \/ MainWrite

Spec == Init /\ [][Next]_vars

\* a Scorer after __init__, its cache empty
InitScore ==
    /\ ScorerFresh
    /\ GenIdle
    /\ kg \in {[p \in Entities \X Entities |-> [one |-> 0, two |-> 0]]}
    /\ samples = <<>>
    /\ MainFresh("off")

NextScore == ScoreProbe \/ ScoreFresh

SpecScore == InitScore /\ [][NextScore]_vars

(***************************************************************************)
(* Definitions the properties are stated with                              *)
(***************************************************************************)
Range(s) == {s[n] : n \in 1..Len(s)}

\* the first n elements of s (all of s when it is shorter)
Prefix(s, n) == [k \in 1..Min(n, Len(s)) |-> s[k]]

RECURSIVE RowPaths(_, _, _)
\* for one source: per destination, its one-hop paths then its two-hop paths
RowPaths(b, s, ds) ==
    IF ds = <<>> THEN <<>>
    ELSE search_one_hop_relation(b, s, Head(ds))
         \o search_two_hop_relation(b, s, Head(ds))
         \o RowPaths(b, s, Tail(ds))

RECURSIVE ReferenceSequence(_, _, _)
\* the pairs visited in source-major input order
ReferenceSequence(b, ss, ds) ==
    IF ss = <<>> THEN <<>>
    ELSE RowPaths(b, Head(ss), ds) \o ReferenceSequence(b, Tail(ss), ds)

NoDuplicates(s) == \A a, b \in 1..Len(s) : a # b => s[a] # s[b]

FirstSubject(p) == p[1][1]
LastObject(p) == p[Len(p)][3]

\* every answer for (s, d) starts at s and ends at d
WellFormedBackend(b) ==
    \A s \in Entities, d \in Entities :
        \A p \in Range(search_one_hop_relation(b, s, d)) \cup Range(search_two_hop_relation(b, s, d)) :
            FirstSubject(p) = s /\ LastObject(p) = d

EndpointsWithin(ps, srcs, dsts) ==
    \A n \in 1..Len(ps) :
        FirstSubject(ps[n]) \in Range(srcs) /\ LastObject(ps[n]) \in Range(dsts)

RecordIds(rs) == {rs[k]["id"] : k \in 1..Len(rs)}

NotRaised(k) == k \notin raisedAt

\* a backend call is appended to the log by this step
IssuedNow == Len(queries') = Len(queries) + 1

(***************************************************************************)
(* Properties                                                              *)
(***************************************************************************)

\* C1: the list generate_paths returns has at most max_path elements, for every
\* max_path >= 0; hence every record main collects and writes has at most 100 paths.
C1_AtMostMaxPath ==
    /\ pc = "returned" => Len(result) <= max_path
    /\ \A k \in 1..Len(processed) : Len(processed[k]["paths"]) <= DefaultMaxPath
    /\ mpc = "done" => \A k \in 1..Len(output) : Len(output[k]["paths"]) <= DefaultMaxPath

\* C1, its case: main wrote a record cut to exactly 100 paths out of more collected
C1_Witness ==
    /\ mpc = "done"
    /\ Len(paths) > DefaultMaxPath
    /\ \E k \in 1..Len(output) : Len(output[k]["paths"]) = DefaultMaxPath

\* C2: a sample whose backend query raised leaves no record in processed_samples and
\* counts once in skipped; the loop goes on to the next sample (only a record lacking
\* an entity field ends the loop early), and when the loop ends processed + skipped
\* equals the number of samples read.
C2_SkipAndContinue ==
    /\ skipped = Cardinality(raisedAt)
    /\ raisedAt \cap RecordIds(processed) = {}
    /\ mpc \in {"fetch", "done"} => Len(processed) + skipped = idx
    /\ mpc = "done" => idx = Len(samples) /\ Len(processed) + skipped = Len(samples)
    /\ mpc = "aborted" => ~HasEntityFields(samples[idx])

\* C2, its case: a sample was skipped and a later sample of the batch was processed
C2_Witness ==
    /\ mpc = "done"
    /\ \E a \in raisedAt : \E b \in RecordIds(processed) : a < b

C4_PrefixOfReference ==
    pc = "returned" =>
        result = Prefix(ReferenceSequence(kg, src_entities, dst_entities), max_path)

\* C4, its case: max_path = 2 with at least 5 one-hop paths available for the first
\* pair: exactly the first 2 are returned
C4_Witness ==
    /\ pc = "returned"
    /\ max_path = 2
    /\ Len(src_entities) > 0 /\ Len(dst_entities) > 0
    /\ Len(search_one_hop_relation(kg, src_entities[1], dst_entities[1])) >= 5
    /\ result = << << <<src_entities[1], 1, dst_entities[1]>> >>,
                   << <<src_entities[1], 2, dst_entities[1]>> >> >>

\* C5 as stated: the returned list holds no path twice.
C5_NoDuplicates == pc = "returned" => NoDuplicates(result)

\* C6 as stated: a backend failure on one pair does not abort the enumeration.
C6_Original == pc # "raised"

\* C6 as amended: a backend failure on one pair aborts generate_paths for the whole
\* sample: a call that returns has seen no failure, a failed call returns nothing and
\* issues no query after the failing one, and the sample leaves no record.
C6_FailureAbortsSample ==
    /\ pc = "returned" => \A n \in 1..Len(queries) : queries[n].outcome = "ok"
    /\ pc = "raised" => /\ result = <<>>
                        /\ queries[Len(queries)].outcome = "raised"
    /\ \A k \in 1..Len(processed) : processed[k]["id"] \notin raisedAt

\* C6, its case: the second pair of a sample failed after the first pair had given
\* paths; the sample was skipped
C6_Witness ==
    /\ mpc = "fetch"
    /\ raisedAt # {}
    /\ Len(queries) >= 3
    /\ queries[Len(queries)].outcome = "raised"
    /\ Len(paths) > 0

\* C7 as stated: the batch loop never aborts because of one bad sample, a record
\* lacking question_entities or answer_entities included.
C7_NeverAborts == mpc # "aborted"

\* C8: with a backend whose answers for (src, dst) start at src and end at dst, every
\* returned path starts in the source list and ends in the destination list, and so
\* does every path of a processed sample with respect to its own entity fields.
C8_Endpoints ==
    /\ pc = "returned" =>
          (WellFormedBackend(kg) => EndpointsWithin(result, src_entities, dst_entities))
    /\ \A k \in 1..Len(processed) :
          WellFormedBackend(kg) =>
              EndpointsWithin(processed[k]["paths"],
                              processed[k]["question_entities"],
                              processed[k]["answer_entities"])

\* C8, its case: a call with one source and another destination returned one-hop and
\* two-hop paths
C8_Witness ==
    /\ pc = "returned"
    /\ Range(src_entities) # Range(dst_entities)
    /\ Range(src_entities) # Entities
    /\ \E n \in 1..Len(result) : Len(result[n]) = 1
    /\ \E n \in 1..Len(result) : Len(result[n]) = 2

\* C9 as stated: every written record is its input sample with every input field
\* unchanged and one added field paths.
C9_Original ==
    mpc = "done" =>
        \A k \in 1..Len(output) :
            LET s == samples[output[k]["id"]] IN
            /\ "paths" \notin DOMAIN s
            /\ \A f \in DOMAIN s : output[k][f] = s[f]

\* C9 as amended: the written records are exactly the input samples whose enumeration
\* did not raise, in input order, each with every input field other than paths
\* unchanged and the field paths set to the enumeration result (added, or replacing a
\* paths field the input carried).
C9_OutputRecords ==
    mpc = "done" =>
        /\ [k \in 1..Len(output) |-> output[k]["id"]]
              = SelectSeq([k \in 1..Len(samples) |-> k], NotRaised)
        /\ \A k \in 1..Len(output) :
              LET s == samples[output[k]["id"]] IN
              /\ DOMAIN output[k] = DOMAIN s \cup {"paths"}
              /\ \A f \in DOMAIN s \ {"paths"} : output[k][f] = s[f]
              /\ output[k]["paths"] =
                    Prefix(ReferenceSequence(kg, s["question_entities"], s["answer_entities"]),
                           DefaultMaxPath)

\* C9, its case: one sample was skipped and a written record replaced the paths field
\* of its input
C9_Witness ==
    /\ mpc = "done"
    /\ raisedAt # {}
    /\ \E k \in 1..Len(output) :
          /\ "paths" \in DOMAIN samples[output[k]["id"]]
          /\ output[k]["paths"] # samples[output[k]["id"]]["paths"]

\* C10 as stated: once the list holds at least max_path paths no backend query is
\* issued, neither for the current pair nor for a remaining one.
C10_Original == [][IssuedNow => Len(paths) < max_path]_vars

\* C10 as amended: the cap is tested once per pair, before its one-hop query: a
\* one-hop query is issued only while the list holds fewer than max_path paths, so no
\* pair is started once the cap is reached; a two-hop query is issued only right after
\* the successful one-hop query of the same pair, whatever the list then holds.
C10_NoPairStartedAfterCap ==
    [][IssuedNow =>
          LET q == queries'[Len(queries')] IN
          /\ q.op = "one_hop" => Len(paths) < max_path
          /\ q.op = "two_hop" =>
                /\ Len(queries) >= 1
                /\ queries[Len(queries)] = Query("one_hop", <<q.src, q.dst>>, "ok")]_vars

\* C10, its case: the first of four pairs reached the cap; the other three, the later
\* source's included, were never queried
C10_Witness ==
    /\ pc = "returned"
    /\ Len(src_entities) = 2
    /\ Len(dst_entities) = 2
    /\ max_path > 0
    /\ Len(queries) = 2
    /\ Len(paths) >= max_path

====
